---- MODULE Spec2Model ----
(***************************************************************************)
(* Model of tar2sqlite.py: incremental ingestion of LEGI archives into an  *)
(* SQLite database.  main() walks the archives of a directory in filename  *)
(* order, process_archive() applies the entries of one archive inside one  *)
(* transaction, suppress() applies the deletion manifest of the archive.   *)
(***************************************************************************)
EXTENDS Integers, Sequences, FiniteSets, Bags, TLC

\* ------------------------------------------------------------------ bounds
MaxMtime == 2        \* entry.mtime ranges over 1..MaxMtime
MaxDate == 3         \* archive dates range over 1..MaxDate
MaxEntries == 2      \* entries read from one archive
MaxApplied == 2      \* archives that one behaviour applies twice in a row
MaxSuppressed == 2   \* manifest references one behaviour of SpecStore applies
MaxFiles == 3        \* archive names in the directory main lists

\* ------------------------------------------------------------ value domains
None == "None"                       \* Python None / SQL NULL
Dossiers == {"D1", "D2"}             \* parts[3]
Cids == {"C1", "C2"}                 \* parts[11]
Mtimes == 1..MaxMtime
Dates == 1..MaxDate

DocTables == {"articles", "sections", "textes_structs", "textes_versions"}
LiensTables == {"articles", "textes_versions"}
TocTables == {"sections", "textes_structs"}

\* parts[-1][4:8]: the 4-letter kind code embedded in a 20-character id
IdCode(id) ==
    CASE id = "LEGIARTI1" -> "ARTI"
      [] id = "LEGISCTA1" -> "SCTA"
      [] id = "LEGITEXT1" -> "TEXT"
      [] OTHER -> "JORF"

\* ------------------------------------------------------------ the database
EmptyDb ==
    [articles |-> {}, sections |-> {}, textes_structs |-> {},
     textes_versions |-> {}, liens |-> EmptyBag, sommaires |-> EmptyBag,
     db_meta |-> {}]

\* the rows of the tables a claim speaks about, without db_meta
Tables(d) == [d EXCEPT !.db_meta = {}]

\* db.one("SELECT value FROM db_meta WHERE key = 'last_update'"); 0 is None
db_last_update(d) ==
    LET rows == {r \in d.db_meta : r.key = "last_update"}
    IN  IF rows = {} THEN 0 ELSE (CHOOSE r \in rows : TRUE).value

\* db.one("SELECT mtime, dossier, cid FROM table WHERE id = ?"): <<>> or <<row>>
prev_row_of(d, table, text_id) ==
    LET rows == {r \in d[table] : r.id = text_id}
    IN  IF rows = {} THEN << >> ELSE << CHOOSE r \in rows : TRUE >>

\* DELETE FROM a bag of rows, `gone` being the rows the WHERE clause selects
DeleteRows(bag, gone) == [r \in DOMAIN bag \ gone |-> bag[r]]

\* SELECT from a bag of rows, `wanted` being the rows the WHERE clause selects
SelectRows(bag, wanted) == [r \in DOMAIN bag \cap wanted |-> bag[r]]

\* insert(table, row) for every row of a sequence
RECURSIVE InsertAll(_, _)
InsertAll(bag, rows) ==
    IF rows = << >> THEN bag
    ELSE InsertAll(bag (+) SetToBag({Head(rows)}), Tail(rows))

\* ------------------------------------------------------------ TYPELIEN_MAP
\* mutant: two kinds are declared with the same inverse
TYPELIEN_FORWARD_SharedValue ==
    [ABROGATION |-> "ABROGE", ANNULATION |-> "ABROGE",
     CODIFICATION |-> "CODIFIE", CONCORDANCE |-> "CONCORDE",
     CREATION |-> "CREE", DEPLACE |-> "DEPLACEMENT",
     DISJOINT |-> "DISJONCTION", MODIFICATION |-> "MODIFIE",
     PEREMPTION |-> "PERIME", RATIFICATION |-> "RATIFIE",
     TRANSFERE |-> "TRANSFERT"]

\* lines 101-113: the dict literal
TYPELIEN_FORWARD ==
    [ABROGATION |-> "ABROGE", ANNULATION |-> "ANNULE",
     CODIFICATION |-> "CODIFIE", CONCORDANCE |-> "CONCORDE",
     CREATION |-> "CREE", DEPLACE |-> "DEPLACEMENT",
     DISJOINT |-> "DISJONCTION", MODIFICATION |-> "MODIFIE",
     PEREMPTION |-> "PERIME", RATIFICATION |-> "RATIFIE",
     TRANSFERE |-> "TRANSFERT"]

\* TYPELIEN_MAP.update([(v, k) for k, v in TYPELIEN_MAP.items()])
TYPELIEN_MAP ==
    [t \in DOMAIN TYPELIEN_FORWARD \cup
           {TYPELIEN_FORWARD[k] : k \in DOMAIN TYPELIEN_FORWARD} |->
        IF \E k \in DOMAIN TYPELIEN_FORWARD : TYPELIEN_FORWARD[k] = t
        THEN CHOOSE k \in DOMAIN TYPELIEN_FORWARD : TYPELIEN_FORWARD[k] = t
        ELSE TYPELIEN_FORWARD[t]]

\* TYPELIEN_MAP.get(typelien, typelien+'_R'); the suffixed kind is a pair
typelien_inverse(typelien) ==
    IF typelien \in DOMAIN TYPELIEN_MAP THEN <<TYPELIEN_MAP[typelien]>>
    ELSE <<typelien, "_R">>

\* ------------------------------------------------------- archive entries
\* A path after the optional leading directory is stripped (lines 139-141):
\* short (fewer parts than the layout has), long (one directory more than the
\* layout has, just above the file), parts[3], parts[11], parts[13] and the
\* id in the file name.  The code indexes parts[3], parts[11], parts[13] and
\* parts[-1] and never looks at the number of parts.
\* get_table: TABLES_MAP[parts[-1][4:8]], 'textes_' + parts[13] + 's'
get_table(parts) ==
    LET code == IdCode(parts.id)
    IN  IF code = "ARTI" THEN "articles"
        ELSE IF code = "SCTA" THEN "sections"
        ELSE IF code = "TEXT"
             THEN IF parts.p13 = "struct" THEN "textes_structs"
                  ELSE IF parts.p13 = "version" THEN "textes_versions"
                  ELSE "textes_?s"
        ELSE "KeyError"

SOUS_DOSSIER_MAP ==
    [articles |-> "article", sections |-> "section_ta",
     textes_structs |-> "texte/struct", textes_versions |-> "texte/version"]

\* the record printed to old_files_log for the candidate's own path
path_record(parts) ==
    [dossier |-> parts.dossier, cid |-> parts.cid,
     sous_dossier |-> IF get_table(parts) \in DocTables
                      THEN SOUS_DOSSIER_MAP[get_table(parts)] ELSE None,
     id |-> parts.id]

\* utils.reconstruct_path(dossier, cid, sous_dossier, id)
reconstruct_path(dossier, cid, sous_dossier, id) ==
    [dossier |-> dossier, cid |-> cid, sous_dossier |-> sous_dossier, id |-> id]

\* mutant: the relocation test runs before the equal-mtime test
Decide_TieAfterRelocation(prev_row, dossier, text_cid, mtime) ==
    IF prev_row = << >> THEN "insert"
    ELSE IF prev_row[1].dossier # dossier \/ prev_row[1].cid # text_cid
         THEN IF prev_row[1].mtime > mtime THEN "discard" ELSE "relocate"
    ELSE IF prev_row[1].mtime = mtime THEN "skip"
    ELSE "update"

\* mutant: a relocated candidate is applied whatever its mtime
Decide_RelocateAlways(prev_row, dossier, text_cid, mtime) ==
    IF prev_row = << >> THEN "insert"
    ELSE IF prev_row[1].mtime = mtime THEN "skip"
    ELSE IF prev_row[1].dossier # dossier \/ prev_row[1].cid # text_cid
         THEN "relocate"
    ELSE "update"

\* lines 153-169: what happens to a candidate given the stored row
Decide(prev_row, dossier, text_cid, mtime) ==
    IF prev_row = << >> THEN "insert"
    ELSE IF prev_row[1].mtime = mtime THEN "skip"
    ELSE IF prev_row[1].dossier # dossier \/ prev_row[1].cid # text_cid
         THEN IF prev_row[1].mtime > mtime THEN "discard" ELSE "relocate"
    ELSE "update"

\* lines 177-257: the structural assertions on the decoded document
checks_pass(root, table, text_id, text_cid) ==
    /\ root.id = text_id
    /\ CASE root.tag = "ARTICLE" ->
                /\ root.nature = "Article"
                /\ table = "articles"
                /\ root.cid = text_cid
         [] root.tag = "SECTION_TA" ->
                /\ table = "sections"
                /\ root.cid = text_cid
         [] root.tag = "TEXTELR" -> table = "textes_structs"
         [] root.tag = "TEXTE_VERSION" ->
                /\ table = "textes_versions"
                /\ root.cid = text_cid
         [] OTHER -> FALSE

\* lines 208-213
delete_section_sommaires(sommaires, text_cid, section_id) ==
    DeleteRows(sommaires,
               {r \in DOMAIN sommaires : /\ r.cid = text_cid
                                         /\ r.parent = section_id
                                         /\ r._source = <<"section_ta_liens">>})

\* lines 214-225
section_sommaires(text_cid, section_id, children) ==
    [i \in 1..Len(children) |->
        [cid |-> text_cid, parent |-> section_id, element |-> children[i].id,
         debut |-> children[i].debut, fin |-> children[i].fin,
         etat |-> children[i].etat, num |-> children[i].num,
         position |-> i - 1, _source |-> <<"section_ta_liens">>]]

\* mutant: every sommaires row of the cid is deleted, whatever its _source
delete_struct_sommaires_WholeCid(sommaires, text_cid, text_id) ==
    DeleteRows(sommaires, {r \in DOMAIN sommaires : r.cid = text_cid})

\* lines 231-235
delete_struct_sommaires(sommaires, text_cid, text_id) ==
    DeleteRows(sommaires,
               {r \in DOMAIN sommaires : /\ r.cid = text_cid
                                         /\ r._source = <<"struct/", text_id>>})

\* lines 236-245
struct_sommaires(text_cid, text_id, children) ==
    [i \in 1..Len(children) |->
        [cid |-> text_cid, parent |-> None, element |-> children[i].id,
         debut |-> children[i].debut, fin |-> children[i].fin,
         etat |-> children[i].etat, num |-> None,
         position |-> i - 1, _source |-> <<"struct/", text_id>>]]

\* the liens rows a document owns: WHERE src_id = ? AND NOT _reversed
\*                                    OR dst_id = ? AND _reversed
owns_lien(r, text_id) ==
    \/ r.src_id = text_id /\ ~r._reversed
    \/ r.dst_id = text_id /\ r._reversed

\* mutant: the reversed rows of the document are forgotten
delete_liens_ForwardOnly(liens, text_id) ==
    DeleteRows(liens, {r \in DOMAIN liens : r.src_id = text_id /\ ~r._reversed})

\* lines 261-265
delete_liens(liens, text_id) ==
    DeleteRows(liens, {r \in DOMAIN liens : owns_lien(r, text_id)})

\* mutant: a citation seen from the target is stored like any other
lien_row_NoSwap(text_id, lien) ==
    [src_id |-> text_id, dst_cid |-> lien.cidtexte, dst_id |-> lien.id,
     dst_titre |-> lien.text, typelien |-> <<lien.typelien>>,
     _reversed |-> FALSE]

\* lines 270-289: the row inserted for one citation element
lien_row(text_id, lien) ==
    IF lien.sens = "cible"
    THEN [src_id |-> lien.id, dst_cid |-> "", dst_id |-> text_id,
          dst_titre |-> "", typelien |-> typelien_inverse(lien.typelien),
          _reversed |-> TRUE]
    ELSE [src_id |-> text_id, dst_cid |-> lien.cidtexte, dst_id |-> lien.id,
          dst_titre |-> lien.text, typelien |-> <<lien.typelien>>,
          _reversed |-> FALSE]

lien_rows(text_id, liens) == [i \in 1..Len(liens) |-> lien_row(text_id, liens[i])]

\* line 273: assert dst_id
liens_pass(liens) ==
    \A i \in 1..Len(liens) : liens[i].sens = "cible" => liens[i].id # None

\* mutant: the row is inserted whether or not the id is stored
write_row_InsertAlways(rows, has_prev, text_id, dossier, text_cid, mtime) ==
    rows \cup {[id |-> text_id, dossier |-> dossier, cid |-> text_cid,
                mtime |-> mtime]}

\* lines 291-299: update(table, dict(id=text_id), attrs) or insert(table, attrs)
write_row(rows, has_prev, text_id, dossier, text_cid, mtime) ==
    IF has_prev
    THEN {IF r.id = text_id
          THEN [r EXCEPT !.dossier = dossier, !.cid = text_cid, !.mtime = mtime]
          ELSE r : r \in rows}
    ELSE rows \cup {[id |-> text_id, dossier |-> dossier, cid |-> text_cid,
                     mtime |-> mtime]}

\* ---------------------------------------------- the columns scrape_tags fills
\* lines 82-93: the tags wanted of each container of a document
ARTICLE_TAGS == {"NOTA", "BLOC_TEXTUEL"}
SECTION_TA_TAGS == {"TITRE_TA", "COMMENTAIRE"}
TEXTELR_TAGS == {"VERSIONS"}
TEXTE_VERSION_TAGS == {"VISAS", "SIGNATAIRES", "TP", "NOTA", "ABRO", "RECT"}
META_ARTICLE_TAGS == {"NUM", "ETAT", "DATE_DEBUT", "DATE_FIN", "TYPE"}
META_CHRONICLE_TAGS ==
    {"NUM", "NUM_SEQUENCE", "NOR", "DATE_PUBLI", "DATE_TEXTE",
     "DERNIERE_MODIFICATION", "ORIGINE_PUBLI", "PAGE_DEB_PUBLI",
     "PAGE_FIN_PUBLI"}
META_VERSION_TAGS ==
    {"TITRE", "TITREFULL", "ETAT", "DATE_DEBUT", "DATE_FIN", "AUTORITE",
     "MINISTERE"}

\* e.tag.lower(), tag by tag
lower ==
    [NOTA |-> "nota", BLOC_TEXTUEL |-> "bloc_textuel",
     TITRE_TA |-> "titre_ta", COMMENTAIRE |-> "commentaire",
     VERSIONS |-> "versions", VISAS |-> "visas",
     SIGNATAIRES |-> "signataires", TP |-> "tp", ABRO |-> "abro",
     RECT |-> "rect", NUM |-> "num", ETAT |-> "etat",
     DATE_DEBUT |-> "date_debut", DATE_FIN |-> "date_fin", TYPE |-> "type",
     NUM_SEQUENCE |-> "num_sequence", NOR |-> "nor",
     DATE_PUBLI |-> "date_publi", DATE_TEXTE |-> "date_texte",
     DERNIERE_MODIFICATION |-> "derniere_modification",
     ORIGINE_PUBLI |-> "origine_publi", PAGE_DEB_PUBLI |-> "page_deb_publi",
     PAGE_FIN_PUBLI |-> "page_fin_publi", TITRE |-> "titre",
     TITREFULL |-> "titrefull", AUTORITE |-> "autorite",
     MINISTERE |-> "ministere"]

\* an element that has no child element: e[0] raises IndexError
NoChild == "NoChild"
\* a tag the container has no child of
Absent == "Absent"

\* `for e in root`: the tags of the children of a container, `elements`
\* giving the inner content of the child of each tag
children_tags(elements) == {t \in DOMAIN elements : elements[t] # Absent}

\* lines 24-28: scrape_tags(attrs, root, wanted_tags, unwrap) as the pairs it
\* adds to attrs
scrape_tags(elements, wanted_tags) ==
    [c \in {lower[t] : t \in children_tags(elements) \cap wanted_tags} |->
        LET t == CHOOSE u \in children_tags(elements) \cap wanted_tags :
                    lower[u] = c
        IN  IF elements[t] = "" THEN None ELSE elements[t]]

\* line 26 with unwrap: innerHTML(e[0]) needs a child element
scrape_pass(elements, wanted_tags, unwrap) ==
    unwrap => \A t \in children_tags(elements) \cap wanted_tags :
                  elements[t] # NoChild

\* the wanted tags of the meta container and of the root, per root tag
META_TAGS ==
    [ARTICLE |-> META_ARTICLE_TAGS, SECTION_TA |-> {}, TEXTELR |-> {},
     TEXTE_VERSION |-> META_VERSION_TAGS]
ROOT_TAGS ==
    [ARTICLE |-> ARTICLE_TAGS, SECTION_TA |-> SECTION_TA_TAGS,
     TEXTELR |-> TEXTELR_TAGS, TEXTE_VERSION |-> TEXTE_VERSION_TAGS]
UNWRAP ==
    [ARTICLE |-> TRUE, SECTION_TA |-> FALSE, TEXTELR |-> FALSE,
     TEXTE_VERSION |-> TRUE]

\* lines 186-255 and 291-293: the attrs of a decoded document; what is set
\* later replaces what was set before
extract(root, dossier, text_cid, mtime) ==
    LET scraped == scrape_tags(root.body, ROOT_TAGS[root.tag])
                   @@ scrape_tags(root.meta, META_TAGS[root.tag])
        keys == [dossier |-> dossier, cid |-> text_cid, mtime |-> mtime]
    IN  IF root.tag = "TEXTE_VERSION"
        THEN keys @@ scraped @@ [nature |-> root.nature]
        ELSE keys @@ scraped

extract_pass(root) ==
    /\ scrape_pass(root.meta, META_TAGS[root.tag], FALSE)
    /\ scrape_pass(root.body, ROOT_TAGS[root.tag], UNWRAP[root.tag])

\* the columns of each table: the four every document row has, those the
\* wanted tags name, and those written apart from scrape_tags
COLUMNS ==
    [articles |-> {"id", "dossier", "cid", "mtime", "section"}
                  \cup {lower[t] : t \in ARTICLE_TAGS \cup META_ARTICLE_TAGS},
     sections |-> {"id", "dossier", "cid", "mtime", "parent"}
                  \cup {lower[t] : t \in SECTION_TA_TAGS},
     textes_structs |-> {"id", "dossier", "cid", "mtime"}
                  \cup {lower[t] : t \in TEXTELR_TAGS},
     textes_versions |-> {"id", "dossier", "cid", "mtime", "nature",
                          "titrefull_s"}
                  \cup {lower[t] : t \in TEXTE_VERSION_TAGS
                                    \cup META_CHRONICLE_TAGS
                                    \cup META_VERSION_TAGS}]

\* db.insert(table, attrs): the columns attrs does not name are NULL
insert(rows, columns, attrs) ==
    rows \cup {[c \in columns |-> IF c \in DOMAIN attrs THEN attrs[c] ELSE None]}

\* mutant: the columns the values do not name are set to NULL
update_ClearsOthers(rows, text_id, values) ==
    {IF r.id = text_id
     THEN [c \in DOMAIN r |->
              IF c \in DOMAIN values THEN values[c]
              ELSE IF c = "id" THEN r[c] ELSE None]
     ELSE r : r \in rows}

\* db.update(table, dict(id=text_id), values): UPDATE table SET the columns
\* the values name WHERE id = text_id
update(rows, text_id, values) ==
    {IF r.id = text_id
     THEN [c \in DOMAIN r |-> IF c \in DOMAIN values THEN values[c] ELSE r[c]]
     ELSE r : r \in rows}

\* --------------------------------------------------- process_archive, body
Outcome(ok, d, log, liste, op, writes) ==
    [ok |-> ok, db |-> d, log |-> log, liste |-> liste, op |-> op,
     writes |-> writes]

\* lines 171-299: parse the document, regenerate derived rows, write the row
write_entry(d, log, liste, entry, table, has_prev, op) ==
    LET parts == entry.path
        root == entry.root
        text_id == parts.id
        text_cid == parts.cid
        som0 == d.sommaires
        som1 == IF ~has_prev THEN som0
                ELSE IF root.tag = "SECTION_TA"
                     THEN delete_section_sommaires(som0, text_cid, text_id)
                ELSE IF root.tag = "TEXTELR"
                     THEN delete_struct_sommaires(som0, text_cid, text_id)
                ELSE som0
        som_new == IF root.tag = "SECTION_TA"
                   THEN section_sommaires(text_cid, text_id, root.children)
                   ELSE IF root.tag = "TEXTELR"
                        THEN struct_sommaires(text_cid, text_id, root.children)
                   ELSE << >>
        som2 == InsertAll(som1, som_new)
        owns == root.tag \in {"ARTICLE", "TEXTE_VERSION"}
        li0 == d.liens
        li1 == IF owns /\ has_prev THEN delete_liens(li0, text_id) ELSE li0
        li_new == IF owns THEN lien_rows(text_id, root.liens) ELSE << >>
        li2 == InsertAll(li1, li_new)
        rows == write_row(d[table], has_prev, text_id, parts.dossier, text_cid,
                          entry.mtime)
        writes == (BagCardinality(som0) - BagCardinality(som1)) + Len(som_new)
                  + (BagCardinality(li0) - BagCardinality(li1)) + Len(li_new) + 1
    IN  IF ~checks_pass(root, table, text_id, text_cid)
        THEN Outcome(FALSE, d, log, liste, "failed", 0)
        ELSE IF owns /\ ~liens_pass(root.liens)
        THEN Outcome(FALSE, d, log, liste, "failed", 0)
        ELSE Outcome(TRUE,
                     [d EXCEPT ![table] = rows, !.sommaires = som2, !.liens = li2],
                     log, liste, op, writes)

\* lines 131-299: one iteration of the loop over the archive's entries
process_entry(d, log, liste, entry) ==
    IF entry.type = "dir" THEN Outcome(TRUE, d, log, liste, "dir", 0)
    ELSE IF entry.type = "manifest"
    THEN Outcome(TRUE, d, log, liste \o entry.refs, "manifest", 0)
    ELSE IF entry.path.short THEN Outcome(FALSE, d, log, liste, "failed", 0)
    ELSE
    LET parts == entry.path
        table == get_table(parts)
    IN  IF table \notin DocTables THEN Outcome(FALSE, d, log, liste, "failed", 0)
        ELSE
        LET prev_row == prev_row_of(d, table, parts.id)
            decision == Decide(prev_row, parts.dossier, parts.cid, entry.mtime)
        IN  CASE decision = "skip" ->
                    Outcome(TRUE, d, log, liste, "skipped", 0)
              [] decision = "discard" ->
                    Outcome(TRUE, d, Append(log, path_record(parts)), liste,
                            "discarded", 0)
              [] decision = "relocate" ->
                    write_entry(d,
                        Append(log, reconstruct_path(prev_row[1].dossier,
                                        prev_row[1].cid, SOUS_DOSSIER_MAP[table],
                                        parts.id)),
                        liste, entry, table, TRUE, "updated")
              [] decision = "update" ->
                    write_entry(d, log, liste, entry, table, TRUE, "updated")
              [] OTHER ->
                    write_entry(d, log, liste, entry, table, FALSE, "inserted")

\* ------------------------------------------------------------------ suppress
\* lines 39-44: the assertions and the classification of one reference
suppress_pass(parts) ==
    /\ ~parts.short
    /\ parts.legi
    /\ get_table(parts) \in DocTables

\* mutant: the document row is deleted by id alone
suppress_one_ByIdOnly(d, parts) ==
    LET table == get_table(parts)
        text_id == parts.id
        gone == {r \in d[table] : r.id = text_id}
        d1 == [d EXCEPT ![table] = @ \ gone]
    IN  IF gone = {} THEN d
        ELSE [d1 EXCEPT
                !.liens = delete_liens(@, text_id),
                !.sommaires =
                    DeleteRows(@, {r \in DOMAIN d.sommaires :
                                      \/ /\ r.parent = text_id
                                         /\ r._source = <<"section_ta_liens">>
                                      \/ r._source = <<"struct/", text_id>>})]

\* lines 45-75: one reference of liste_suppression
suppress_one(d, parts) ==
    LET table == get_table(parts)
        text_cid == parts.cid
        text_id == parts.id
        gone == {r \in d[table] : /\ r.dossier = parts.dossier
                                  /\ r.cid = text_cid
                                  /\ r.id = text_id}
        d1 == [d EXCEPT ![table] = @ \ gone]
        section_rows == {r \in DOMAIN d.sommaires :
                            /\ r.cid = text_cid
                            /\ r.parent = text_id
                            /\ r._source = <<"section_ta_liens">>}
        struct_rows == {r \in DOMAIN d.sommaires :
                           /\ r.cid = text_cid
                           /\ r._source = <<"struct/", text_id>>}
        liens_rows == {r \in DOMAIN d.liens :
                          \/ r.src_id = text_id /\ ~r._reversed
                          \/ r.dst_id = text_id /\ r._reversed}
    IN  IF gone = {} THEN d
        ELSE IF table \in {"articles", "textes_versions"}
             THEN [d1 EXCEPT !.liens = DeleteRows(@, liens_rows)]
        ELSE IF table = "sections"
             THEN [d1 EXCEPT !.sommaires = DeleteRows(@, section_rows)]
        ELSE IF table = "textes_structs"
             THEN [d1 EXCEPT !.sommaires = DeleteRows(@, struct_rows)]
        ELSE d1

RowCount(d) ==
    Cardinality(d.articles) + Cardinality(d.sections)
    + Cardinality(d.textes_structs) + Cardinality(d.textes_versions)
    + BagCardinality(d.liens) + BagCardinality(d.sommaires)

\* lines 36-76: suppress(get_table, db, liste_suppression)
RECURSIVE suppress(_, _)
suppress(d, liste_suppression) ==
    IF liste_suppression = << >> THEN [ok |-> TRUE, db |-> d, deleted |-> 0]
    ELSE LET parts == Head(liste_suppression)
         IN  IF ~suppress_pass(parts)
             THEN [ok |-> FALSE, db |-> d, deleted |-> 0]
             ELSE LET d1 == suppress_one(d, parts)
                      rest == suppress(d1, Tail(liste_suppression))
                  IN  [rest EXCEPT !.deleted = @ + RowCount(d) - RowCount(d1)]

\* lines 127-304: process_archive(db, archive_path, old_files_log) on the
\* entries of one archive, in order, then the manifest
RECURSIVE process_entries(_, _, _, _, _)
process_entries(d, log, liste, entries, writes) ==
    IF entries = << >>
    THEN LET s == suppress(d, liste)
         IN  [ok |-> s.ok, db |-> s.db, log |-> log,
              writes |-> writes + s.deleted]
    ELSE LET r == process_entry(d, log, liste, Head(entries))
         IN  IF ~r.ok THEN [ok |-> FALSE, db |-> d, log |-> r.log, writes |-> 0]
             ELSE process_entries(r.db, r.log, r.liste, Tail(entries),
                                  writes + r.writes)

\* mutant: what a failing archive printed to the log is taken back
process_archive_LogRolledBack(d, entries) ==
    LET r == process_entries(d, << >>, << >>, entries, 0)
    IN  IF r.ok THEN r ELSE [r EXCEPT !.log = << >>]

process_archive(d, entries) == process_entries(d, << >>, << >>, entries, 0)

\* ------------------------------------------------------------------- main
\* mutant: an archive dated like the watermark is not skipped
Eligible_SameDate(last_update_, a) ==
    /\ a.match
    /\ ~((last_update_ # 0) # (~a.global))
    /\ ~(last_update_ # 0 /\ a.date < last_update_)

\* mutant: the full/delta test is dropped
Eligible_AnyType(last_update_, a) ==
    /\ a.match
    /\ ~(last_update_ # 0 /\ a.date <= last_update_)

\* mutant: a delta is processed whatever its date
Eligible_DeltaAlways(last_update_, a) ==
    /\ a.match
    /\ ~((last_update_ # 0) # (~a.global))

\* lines 329-340: is the archive processed (TRUE) or skipped (FALSE)
Eligible(last_update_, a) ==
    /\ a.match
    /\ ~((last_update_ # 0) # (~a.global))
    /\ ~(last_update_ # 0 /\ a.date <= last_update_)

\* mutant: the watermark is not written inside the transaction
set_last_update_Skipped(d, last_update_, archive_date) == d

\* lines 349-352: UPDATE or INSERT of the db_meta row
set_last_update(d, last_update_, archive_date) ==
    IF last_update_ # 0
    THEN [d EXCEPT !.db_meta =
            {IF r.key = "last_update" THEN [r EXCEPT !.value = archive_date]
             ELSE r : r \in @}]
    ELSE [d EXCEPT !.db_meta =
            @ \cup {[key |-> "last_update", value |-> archive_date]}]

\* `with db:` (line 347): what is committed when the block ends
db_exit(committed, working, ok) == IF ok THEN working ELSE committed

\* ------------------------------------------------ inputs: archives, entries
Archives == [global : BOOLEAN, date : Dates, match : BOOLEAN]

DocKeys == {"ART", "SEC", "STR", "VER"}
DocId(k) == CASE k = "ART" -> "LEGIARTI1" [] k = "SEC" -> "LEGISCTA1"
              [] OTHER -> "LEGITEXT1"
DocP13(k) == CASE k = "STR" -> "struct" [] k = "VER" -> "version"
               [] OTHER -> "LEGI"
DocTag(k) == CASE k = "ART" -> "ARTICLE" [] k = "SEC" -> "SECTION_TA"
               [] k = "STR" -> "TEXTELR" [] OTHER -> "TEXTE_VERSION"
DocNature(k) == CASE k = "ART" -> "Article" [] k = "SEC" -> None
                  [] OTHER -> "LOI"

Lien(typelien, sens, id) ==
    [typelien |-> typelien, sens |-> sens, id |-> id, cidtexte |-> "C9",
     text |-> "titre"]
LiensChoices ==
    {<< >>,
     <<Lien("CITATION", "source", "LEGIARTI2")>>,
     <<Lien("ABROGATION", "cible", "LEGIARTI2"),
       Lien("CITATION", "source", "LEGIARTI2")>>}
BadLiens == <<Lien("CITATION", "source", "LEGIARTI2"),
              Lien("ABROGATION", "cible", None)>>

Child(id) == [id |-> id, debut |-> "2000-01-01", fin |-> "2999-01-01",
              etat |-> "VIGUEUR", num |-> "1"]
ChildrenChoices == {<< >>, <<Child("A")>>, <<Child("B"), Child("A")>>}

Path(dossier, cid, p13, id) ==
    [short |-> FALSE, long |-> FALSE, legi |-> TRUE, dossier |-> dossier,
     cid |-> cid, p13 |-> p13, id |-> id]

File(k, dossier, cid, mtime, liens, children) ==
    [type |-> "file", path |-> Path(dossier, cid, DocP13(k), DocId(k)),
     mtime |-> mtime,
     root |-> [tag |-> DocTag(k), id |-> DocId(k), nature |-> DocNature(k),
               cid |-> cid, liens |-> liens, children |-> children]]

\* the well-formed entries of document k
GoodEntries(k) ==
    IF k \in {"ART", "VER"}
    THEN {File(k, d, c, m, l, << >>) :
            d \in Dossiers, c \in Cids, m \in Mtimes, l \in LiensChoices}
    ELSE {File(k, d, c, m, << >>, ch) :
            d \in Dossiers, c \in Cids, m \in Mtimes, ch \in ChildrenChoices}

\* entries of document k with one defect each
BadEntries(k) ==
    LET base == File(k, "D1", "C1", MaxMtime, << >>, << >>)
    IN  {[base EXCEPT !.path.short = TRUE],
         [base EXCEPT !.path.id = "JORFTEXT1", !.root.id = "JORFTEXT1"],
         [base EXCEPT !.path.p13 = IF k \in {"STR", "VER"} THEN "autre" ELSE @,
                      !.root.tag = IF k \in {"STR", "VER"} THEN @ ELSE "JO"],
         [base EXCEPT !.root.tag = IF k = "ART" THEN "SECTION_TA" ELSE "ARTICLE",
                      !.root.nature = "Article"],
         [base EXCEPT !.root.id = "LEGIARTI9"],
         [base EXCEPT !.root.cid = "C9"],
         [base EXCEPT !.root.liens = BadLiens],
         [base EXCEPT !.path.long = TRUE]}

Manifest(refs) == [type |-> "manifest", refs |-> refs]

\* the manifest entries naming document k
Manifests(k) ==
    {Manifest(<< >>)} \cup
    {Manifest(<<Path(d, c, DocP13(k), DocId(k))>>) : d \in Dossiers, c \in Cids}
    \cup {Manifest(<<[Path("D1", "C1", DocP13(k), DocId(k)) EXCEPT !.legi = FALSE]>>),
          Manifest(<<[Path("D1", "C1", DocP13(k), DocId(k)) EXCEPT !.long = TRUE]>>)}

EntriesOf(k) ==
    GoodEntries(k) \cup BadEntries(k) \cup Manifests(k) \cup {[type |-> "dir"]}

\* the documents one behaviour is about
Scopes == {{k} : k \in DocKeys}

\* the archives main reads hold one Article or one Section, at two places,
\* with at most one citation or child
MainScopes == {{"ART"}, {"SEC"}}
MainPlaces == {<<"D1", "C1">>, <<"D2", "C2">>}
MainEntry(e) ==
    CASE e.type = "file" ->
           \/ /\ <<e.path.dossier, e.path.cid>> \in MainPlaces
              /\ Len(e.root.liens) <= 1
              /\ Len(e.root.children) <= 1
           \/ e.path.short
           \/ e.root.liens = BadLiens
      [] e.type = "manifest" ->
           \A i \in 1..Len(e.refs) :
               <<e.refs[i].dossier, e.refs[i].cid>> \in MainPlaces
      [] OTHER -> TRUE
MainEntries == [k \in DocKeys |-> {e \in EntriesOf(k) : MainEntry(e)}]

\* what the store is given: the files, and the references of the manifests
StoreFiles == [k \in DocKeys |-> {e \in EntriesOf(k) : e.type = "file"}]
StoreRefs ==
    [k \in DocKeys |-> {e.refs[1] : e \in {m \in Manifests(k) : m.refs # << >>}}]

\* two documents at once: Article LEGIARTI1 and a TextVersion citing it
PairScopes == {{"ART", "VER"}}
CitingLiens ==
    {<<Lien("CITATION", "source", "LEGIARTI1")>>,
     <<Lien("ABROGATION", "cible", "LEGIARTI1")>>}
PairFiles ==
    {File("ART", "D1", "C1", m, l, << >>) :
        m \in Mtimes, l \in {<< >>, <<Lien("CITATION", "source", "LEGIARTI2")>>}}
    \cup {File("VER", "D1", "C1", m, l, << >>) : m \in Mtimes, l \in CitingLiens}
PairRefs == {Path("D1", "C1", DocP13(k), DocId(k)) : k \in {"ART", "VER"}}

\* two containers at once: Section LEGISCTA1 and TextStructure LEGITEXT1,
\* which lists it, under the same or different cids
TocPairScopes == {{"SEC", "STR"}}
TocPairFiles ==
    {File("SEC", "D1", c, m, << >>, ch) :
        c \in Cids, m \in {1, MaxMtime}, ch \in {<<Child("A")>>}}
    \cup {File("STR", "D1", c, m, << >>, ch) :
        c \in Cids, m \in {1, MaxMtime},
        ch \in {<< >>, <<Child("LEGISCTA1")>>}}
TocPairRefs ==
    {Path("D1", c, DocP13(k), DocId(k)) : c \in Cids, k \in {"SEC", "STR"}}

NoEntry == [entry |-> [type |-> "none"], op |-> "none"]
NoTwice == [phase |-> "ready", entries |-> << >>, applied |-> 0, writes |-> 0,
            first |-> EmptyDb]
NoArchive == [global |-> FALSE, date |-> 0, match |-> FALSE, op |-> "none"]
NoLink == [phase |-> "none", lien |-> None, trail |-> << >>]
NoDir == [files |-> << >>, pos |-> 0, retry |-> 0]
NoCols == [t \in DocTables \cup {"textes_versions_brutes"} |-> {}]

\* ------------------------------------------------------------------ state
VARIABLES
    db,                 \* the committed database
    tx,                 \* the database as the open transaction sees it
    pc,                 \* "idle" (no run), "scan" (main's loop), "archive"
    last_update,        \* main's local variable; 0 is None
    cur,                \* the archive main considered last, and what became of it
    liste_suppression,  \* process_archive's list of manifest references
    old_files_log,      \* records printed to the log since the archive began
                        \* (SpecStore: by the entry applied last)
    nread,              \* entries read from the current archive
    last,               \* the entry read last, and what became of it
    scope,              \* the documents the archives of this behaviour hold
    twice,              \* process_archive called twice on one archive
    nsuppressed,        \* manifest references suppress ran for (SpecStore)
    link,               \* one citation element and what is made of it (SpecLiens)
    dir,                \* the listing of the directory and main's place in it
                        \* (SpecDir)
    cols                \* the columns scrape_tags fills, per stored row
                        \* (SpecFields)

vars == <<db, tx, pc, last_update, cur, liste_suppression, old_files_log,
          nread, last, scope, twice, nsuppressed, link, dir, cols>>

Init ==
    /\ db = EmptyDb
    /\ tx = EmptyDb
    /\ pc = "idle"
    /\ last_update = 0
    /\ cur = NoArchive
    /\ liste_suppression = << >>
    /\ old_files_log = << >>
    /\ nread = 0
    /\ last = NoEntry
    /\ scope \in MainScopes
    /\ twice = NoTwice
    /\ nsuppressed = 0
    /\ link = NoLink
    /\ dir = NoDir
    /\ cols = NoCols

\* lines 313-327: a run starts and reads the watermark
StartRun ==
    /\ pc = "idle"
    /\ pc' = "scan"
    /\ last_update' = db_last_update(db)
    /\ cur' = NoArchive
    /\ last' = NoEntry
    /\ old_files_log' = << >>
    /\ UNCHANGED <<db, tx, liste_suppression, nread, scope, twice, nsuppressed, link,
                   dir, cols>>

\* lines 328-340: the next file name is skipped
SkipArchive(a) ==
    /\ pc = "scan"
    /\ ~Eligible(last_update, a)
    /\ cur' = [global |-> a.global, date |-> a.date, match |-> a.match,
               op |-> "skipped"]
    /\ UNCHANGED <<db, tx, pc, last_update, liste_suppression, old_files_log,
                   nread, last, scope, twice, nsuppressed, link, dir, cols>>

\* lines 342-348 and 127-130: the transaction opens, process_archive starts
BeginArchive(a) ==
    /\ pc = "scan"
    /\ Eligible(last_update, a)
    /\ pc' = "archive"
    /\ cur' = [global |-> a.global, date |-> a.date, match |-> a.match,
               op |-> "processing"]
    /\ tx' = db
    /\ liste_suppression' = << >>
    /\ old_files_log' = << >>
    /\ nread' = 0
    /\ last' = NoEntry
    /\ UNCHANGED <<db, last_update, scope, twice, nsuppressed, link, dir, cols>>

\* lines 131-299: one entry of the archive is applied
ReadEntry(e) ==
    LET r == process_entry(tx, old_files_log, liste_suppression, e)
    IN  /\ pc = "archive"
        /\ nread < MaxEntries
        /\ r.ok
        /\ tx' = r.db
        /\ old_files_log' = r.log
        /\ liste_suppression' = r.liste
        /\ nread' = nread + 1
        /\ last' = [entry |-> e, op |-> r.op]
        /\ UNCHANGED <<db, pc, last_update, cur, scope, twice, nsuppressed, link,
                       dir, cols>>

\* an entry raises: the exception leaves the `with db:` block and main
EntryFails(e) ==
    LET r == process_entry(tx, old_files_log, liste_suppression, e)
    IN  /\ pc = "archive"
        /\ nread < MaxEntries
        /\ ~r.ok
        /\ db' = db_exit(db, r.db, FALSE)
        /\ tx' = db'
        /\ old_files_log' = r.log
        /\ liste_suppression' = << >>
        /\ nread' = 0
        /\ last' = [entry |-> e, op |-> "failed"]
        /\ pc' = "idle"
        /\ cur' = [cur EXCEPT !.op = "failed"]
        /\ UNCHANGED <<last_update, scope, twice, nsuppressed, link, dir, cols>>

\* lines 301-304 and 349-354: manifest, watermark, commit
FinishArchive ==
    LET s == suppress(tx, liste_suppression)
        d == set_last_update(s.db, last_update, cur.date)
    IN  /\ pc = "archive"
        /\ s.ok
        /\ db' = db_exit(db, d, TRUE)
        /\ tx' = db'
        /\ last_update' = cur.date
        /\ cur' = [cur EXCEPT !.op = "applied"]
        /\ pc' = "scan"
        /\ liste_suppression' = << >>
        /\ nread' = 0
        /\ last' = NoEntry
        /\ UNCHANGED <<old_files_log, scope, twice, nsuppressed, link, dir, cols>>

\* suppress raises on a reference: the transaction is rolled back
SuppressFails ==
    LET s == suppress(tx, liste_suppression)
    IN  /\ pc = "archive"
        /\ ~s.ok
        /\ db' = db_exit(db, s.db, FALSE)
        /\ tx' = db'
        /\ cur' = [cur EXCEPT !.op = "failed"]
        /\ pc' = "idle"
        /\ liste_suppression' = << >>
        /\ nread' = 0
        /\ last' = NoEntry
        /\ UNCHANGED <<last_update, old_files_log, scope, twice, nsuppressed, link,
                       dir, cols>>

\* line 328: no file name is left
EndRun ==
    /\ pc = "scan"
    /\ pc' = "idle"
    /\ cur' = NoArchive
    /\ UNCHANGED <<db, tx, last_update, liste_suppression, old_files_log,
                   nread, last, scope, twice, nsuppressed, link, dir, cols>>

Entries == UNION {MainEntries[k] : k \in scope}

Next ==
    \/ StartRun
    \/ \E a \in Archives : SkipArchive(a)
    \/ \E a \in Archives : BeginArchive(a)
    \/ \E e \in Entries : ReadEntry(e)
    \/ \E e \in Entries : EntryFails(e)
    \/ FinishArchive
    \/ SuppressFails
    \/ EndRun

Spec == Init /\ [][Next]_vars

\* ------------------------------- process_archive twice on the same archive
ArchiveContents == UNION {[1..n -> Entries] : n \in 0..MaxEntries}

\* process_archive(db, archive) returns: the archive is applied to the store
ApplyFirst(entries) ==
    LET r == process_archive(db, entries)
    IN  /\ twice.phase = "ready"
        /\ twice.applied < MaxApplied
        /\ r.ok
        /\ db' = r.db
        /\ twice' = [phase |-> "first", entries |-> entries,
                     applied |-> twice.applied + 1, writes |-> r.writes,
                     first |-> r.db]
        /\ UNCHANGED <<tx, pc, last_update, cur, liste_suppression,
                       old_files_log, nread, last, scope, nsuppressed, link,
                       dir, cols>>

\* process_archive is called again on the same archive and returns
ApplySecond ==
    LET r == process_archive(db, twice.entries)
    IN  /\ twice.phase = "first"
        /\ r.ok
        /\ db' = r.db
        /\ twice' = [twice EXCEPT !.phase = "again", !.writes = r.writes]
        /\ UNCHANGED <<tx, pc, last_update, cur, liste_suppression,
                       old_files_log, nread, last, scope, nsuppressed, link,
                       dir, cols>>

\* process_archive is called again on the same archive and raises
SecondFails ==
    LET r == process_archive(db, twice.entries)
    IN  /\ twice.phase = "first"
        /\ ~r.ok
        /\ twice' = [twice EXCEPT !.phase = "raised", !.writes = 0]
        /\ UNCHANGED <<db, tx, pc, last_update, cur, liste_suppression,
                       old_files_log, nread, last, scope, nsuppressed, link,
                       dir, cols>>

\* the next archive is applied to the store the two calls left
NextArchive ==
    /\ twice.phase \in {"again", "raised"}
    /\ twice' = [twice EXCEPT !.phase = "ready", !.entries = << >>,
                              !.writes = 0, !.first = EmptyDb]
    /\ UNCHANGED <<db, tx, pc, last_update, cur, liste_suppression,
                   old_files_log, nread, last, scope, nsuppressed, link,
                   dir, cols>>

NextTwice ==
    \/ \E entries \in ArchiveContents : ApplyFirst(entries)
    \/ ApplySecond
    \/ SecondFails
    \/ NextArchive

SpecTwice == Init /\ [][NextTwice]_vars

\* ------------------- the store under process_archive, entry after entry
\* Archives of any length follow one another; what an entry or a manifest
\* reference does to the store is the step.
StoreEntries ==
    IF scope \in PairScopes THEN PairFiles
    ELSE IF scope \in TocPairScopes THEN TocPairFiles
    ELSE UNION {StoreFiles[k] : k \in scope}
StoreReferences ==
    IF scope \in PairScopes THEN PairRefs
    ELSE IF scope \in TocPairScopes THEN TocPairRefs
    ELSE UNION {StoreRefs[k] : k \in scope}

InitStore ==
    /\ db = EmptyDb
    /\ tx = EmptyDb
    /\ pc = "archive"
    /\ last_update = 0
    /\ cur = NoArchive
    /\ liste_suppression = << >>
    /\ old_files_log = << >>
    /\ nread = 0
    /\ last = NoEntry
    /\ scope \in Scopes \cup PairScopes
    /\ twice = NoTwice
    /\ nsuppressed = 0
    /\ link = NoLink
    /\ dir = NoDir
    /\ cols = NoCols

\* lines 131-299: the loop body runs for the entry; when it raises, nothing
\* of the entry stays in the store
ApplyEntry(e) ==
    LET r == process_entry(tx, << >>, << >>, e)
    IN  /\ tx' = IF r.ok THEN r.db ELSE tx
        /\ old_files_log' = r.log
        /\ last' = [entry |-> e, op |-> r.op]
        /\ UNCHANGED <<db, pc, last_update, cur, liste_suppression, nread,
                       scope, twice, nsuppressed, link, dir, cols>>

\* lines 301-304 and 36-76: suppress runs for one reference of a manifest
ApplyReference(ref) ==
    LET s == suppress(tx, <<ref>>)
    IN  /\ nsuppressed < MaxSuppressed
        /\ tx' = IF s.ok THEN s.db ELSE tx
        /\ nsuppressed' = nsuppressed + 1
        /\ old_files_log' = << >>
        /\ last' = [entry |-> Manifest(<<ref>>),
                    op |-> IF s.ok THEN "suppressed" ELSE "failed"]
        /\ UNCHANGED <<db, pc, last_update, cur, liste_suppression, nread,
                       scope, twice, link, dir, cols>>

NextStore ==
    \/ \E e \in StoreEntries : ApplyEntry(e)
    \/ \E ref \in StoreReferences : ApplyReference(ref)

SpecStore == InitStore /\ [][NextStore]_vars

\* the same steps on a store that holds two documents
InitPairs ==
    /\ db = EmptyDb
    /\ tx = EmptyDb
    /\ pc = "archive"
    /\ last_update = 0
    /\ cur = NoArchive
    /\ liste_suppression = << >>
    /\ old_files_log = << >>
    /\ nread = 0
    /\ last = NoEntry
    /\ scope \in PairScopes \cup TocPairScopes
    /\ twice = NoTwice
    /\ nsuppressed = 0
    /\ link = NoLink
    /\ dir = NoDir
    /\ cols = NoCols

SpecPairs == InitPairs /\ [][NextStore]_vars

\* ------------------------- an archive that raises, and the same archive again
\* old_files_log is here the file main opens for appending (line 313): what
\* it holds is never taken back.  twice.log is what the call that raised
\* printed.
NoRetry == [phase |-> "ready", entries |-> << >>, applied |-> 0, log |-> << >>]

\* the entries of the archives met here: document k at two places, one entry
\* whose content fails the checks, one whose path is too short, one manifest
\* whose reference fails
RetryEntries ==
    [k \in DocKeys |->
        {File(k, p[1], p[2], m, << >>, << >>) :
            p \in MainPlaces, m \in {1, MaxMtime}}
        \cup {[File(k, "D1", "C1", MaxMtime, << >>, << >>)
                  EXCEPT !.root.id = "LEGIARTI9"],
              [File(k, "D1", "C1", MaxMtime, << >>, << >>)
                  EXCEPT !.path.short = TRUE],
              Manifest(<<[Path("D1", "C1", DocP13(k), DocId(k))
                            EXCEPT !.legi = FALSE]>>)}]
RetryContents ==
    UNION {[1..n -> UNION {RetryEntries[k] : k \in scope}] : n \in 0..MaxEntries}

InitRetry ==
    /\ db = EmptyDb
    /\ tx = EmptyDb
    /\ pc = "idle"
    /\ last_update = 0
    /\ cur = NoArchive
    /\ liste_suppression = << >>
    /\ old_files_log = << >>
    /\ nread = 0
    /\ last = NoEntry
    /\ scope \in MainScopes
    /\ twice = NoRetry
    /\ nsuppressed = 0
    /\ link = NoLink
    /\ dir = NoDir
    /\ cols = NoCols

\* lines 347-348: `with db:` around process_archive, which returns or raises
RunArchive(entries) ==
    LET r == process_archive(db, entries)
    IN  /\ twice.phase = "ready"
        /\ twice.applied < MaxApplied
        /\ db' = db_exit(db, r.db, r.ok)
        /\ old_files_log' = old_files_log \o r.log
        /\ twice' = [phase |-> IF r.ok THEN "ready" ELSE "aborted",
                     entries |-> entries, applied |-> twice.applied + 1,
                     log |-> r.log]
        /\ UNCHANGED <<tx, pc, last_update, cur, liste_suppression, nread,
                       last, scope, nsuppressed, link, dir, cols>>

\* the next run meets the archive that raised, the watermark being as it was
RetryArchive ==
    LET r == process_archive(db, twice.entries)
    IN  /\ twice.phase = "aborted"
        /\ db' = db_exit(db, r.db, r.ok)
        /\ old_files_log' = old_files_log \o r.log
        /\ twice' = [twice EXCEPT !.phase = "retried"]
        /\ UNCHANGED <<tx, pc, last_update, cur, liste_suppression, nread,
                       last, scope, nsuppressed, link, dir, cols>>

\* the archive is replaced in the directory; later runs meet another one
ReplaceArchive ==
    /\ twice.phase = "retried"
    /\ twice' = [twice EXCEPT !.phase = "ready", !.entries = << >>,
                              !.log = << >>]
    /\ UNCHANGED <<db, tx, pc, last_update, cur, liste_suppression,
                   old_files_log, nread, last, scope, nsuppressed, link,
                   dir, cols>>

NextRetry ==
    \/ \E entries \in RetryContents : RunArchive(entries)
    \/ RetryArchive
    \/ ReplaceArchive

SpecRetry == InitRetry /\ [][NextRetry]_vars

\* ------------------------------------- main over one directory, run after run
\* sorted(os.listdir()) is the same listing at every run; the order of the
\* names says nothing about the dates they embed.  dir.pos is the place of
\* main's loop in the listing, dir.retry the place of the archive whose
\* processing raised in the run before (0 when none did).
DirArchives == [global : BOOLEAN, date : Dates, match : {TRUE}]
DirListings == [1..MaxFiles -> DirArchives]
DirEntries ==
    {File("ART", "D1", "C1", 1, << >>, << >>),
     [File("ART", "D1", "C1", 1, << >>, << >>) EXCEPT !.path.short = TRUE],
     Manifest(<<[Path("D1", "C1", "LEGI", "LEGIARTI1") EXCEPT !.legi = FALSE]>>)}

InitDir ==
    /\ db = EmptyDb
    /\ tx = EmptyDb
    /\ pc = "idle"
    /\ last_update = 0
    /\ cur = NoArchive
    /\ liste_suppression = << >>
    /\ old_files_log = << >>
    /\ nread = 0
    /\ last = NoEntry
    /\ scope = {"ART"}
    /\ twice = NoTwice
    /\ nsuppressed = 0
    /\ link = NoLink
    /\ dir \in {[files |-> f, pos |-> 0, retry |-> 0] : f \in DirListings}
    /\ cols = NoCols

\* lines 313-327: a run starts, reads the watermark and lists the directory
DirStartRun ==
    /\ pc = "idle"
    /\ pc' = "scan"
    /\ last_update' = db_last_update(db)
    /\ cur' = NoArchive
    /\ last' = NoEntry
    /\ old_files_log' = << >>
    /\ dir' = [dir EXCEPT !.pos = 1]
    /\ UNCHANGED <<db, tx, liste_suppression, nread, scope, twice, nsuppressed,
                   link, cols>>

\* lines 328-340: the name at dir.pos is skipped
DirSkipArchive ==
    /\ pc = "scan"
    /\ dir.pos <= Len(dir.files)
    /\ ~Eligible(last_update, dir.files[dir.pos])
    /\ cur' = [global |-> dir.files[dir.pos].global,
               date |-> dir.files[dir.pos].date,
               match |-> dir.files[dir.pos].match, op |-> "skipped"]
    /\ dir' = [dir EXCEPT !.pos = @ + 1]
    /\ UNCHANGED <<db, tx, pc, last_update, liste_suppression, old_files_log,
                   nread, last, scope, twice, nsuppressed, link, cols>>

\* lines 342-348 and 127-130: the archive at dir.pos is opened
DirBeginArchive ==
    /\ pc = "scan"
    /\ dir.pos <= Len(dir.files)
    /\ Eligible(last_update, dir.files[dir.pos])
    /\ pc' = "archive"
    /\ cur' = [global |-> dir.files[dir.pos].global,
               date |-> dir.files[dir.pos].date,
               match |-> dir.files[dir.pos].match, op |-> "processing"]
    /\ tx' = db
    /\ liste_suppression' = << >>
    /\ old_files_log' = << >>
    /\ nread' = 0
    /\ last' = NoEntry
    /\ UNCHANGED <<db, last_update, scope, twice, nsuppressed, link, dir, cols>>

\* an entry raises: the exception leaves the `with db:` block and main
DirEntryFails(e) ==
    LET r == process_entry(tx, old_files_log, liste_suppression, e)
    IN  /\ pc = "archive"
        /\ nread < MaxEntries
        /\ ~r.ok
        /\ db' = db_exit(db, r.db, FALSE)
        /\ tx' = db'
        /\ old_files_log' = r.log
        /\ liste_suppression' = << >>
        /\ nread' = 0
        /\ last' = [entry |-> e, op |-> "failed"]
        /\ pc' = "idle"
        /\ cur' = [cur EXCEPT !.op = "failed"]
        /\ dir' = [dir EXCEPT !.retry = dir.pos]
        /\ UNCHANGED <<last_update, scope, twice, nsuppressed, link, cols>>

\* lines 301-304 and 349-354: manifest, watermark, commit, next name
DirFinishArchive ==
    LET s == suppress(tx, liste_suppression)
        d == set_last_update(s.db, last_update, cur.date)
    IN  /\ pc = "archive"
        /\ s.ok
        /\ db' = db_exit(db, d, TRUE)
        /\ tx' = db'
        /\ last_update' = cur.date
        /\ cur' = [cur EXCEPT !.op = "applied"]
        /\ pc' = "scan"
        /\ liste_suppression' = << >>
        /\ nread' = 0
        /\ last' = NoEntry
        /\ dir' = [dir EXCEPT !.pos = @ + 1, !.retry = 0]
        /\ UNCHANGED <<old_files_log, scope, twice, nsuppressed, link, cols>>

\* suppress raises on a reference: the transaction is rolled back
DirSuppressFails ==
    LET s == suppress(tx, liste_suppression)
    IN  /\ pc = "archive"
        /\ ~s.ok
        /\ db' = db_exit(db, s.db, FALSE)
        /\ tx' = db'
        /\ cur' = [cur EXCEPT !.op = "failed"]
        /\ pc' = "idle"
        /\ liste_suppression' = << >>
        /\ nread' = 0
        /\ last' = NoEntry
        /\ dir' = [dir EXCEPT !.retry = dir.pos]
        /\ UNCHANGED <<last_update, old_files_log, scope, twice, nsuppressed,
                       link, cols>>

\* line 328: no name is left
DirEndRun ==
    /\ pc = "scan"
    /\ dir.pos > Len(dir.files)
    /\ pc' = "idle"
    /\ cur' = NoArchive
    /\ dir' = [dir EXCEPT !.pos = 0]
    /\ UNCHANGED <<db, tx, last_update, liste_suppression, old_files_log,
                   nread, last, scope, twice, nsuppressed, link, cols>>

NextDir ==
    \/ DirStartRun
    \/ DirSkipArchive
    \/ DirBeginArchive
    \/ \E e \in DirEntries : ReadEntry(e)
    \/ \E e \in DirEntries : DirEntryFails(e)
    \/ DirFinishArchive
    \/ DirSuppressFails
    \/ DirEndRun

SpecDir == InitDir /\ [][NextDir]_vars

\* ------------------------ one citation element, and the inverse table
\* A document with a single citation element is applied to the empty store;
\* the relation kind of the element is mapped through TYPELIEN_MAP as long as
\* the table declares it.
LinkKinds == DOMAIN TYPELIEN_MAP \cup {"CITATION", "SPEC_APPLICATION"}
LinkInputs ==
    {Lien(t, sens, id) :
        t \in LinkKinds, sens \in {"source", "cible", None},
        id \in {"LEGIARTI2", None}}

InitLiens ==
    /\ db = EmptyDb
    /\ tx = EmptyDb
    /\ pc = "archive"
    /\ last_update = 0
    /\ cur = NoArchive
    /\ liste_suppression = << >>
    /\ old_files_log = << >>
    /\ nread = 0
    /\ last = NoEntry
    /\ scope \in {{"ART"}, {"VER"}}
    /\ twice = NoTwice
    /\ nsuppressed = 0
    /\ link \in {[phase |-> "read", lien |-> l, trail |-> <<l.typelien>>] :
                    l \in LinkInputs}
    /\ dir = NoDir
    /\ cols = NoCols

\* lines 131-299 for a document whose LIENS holds the one element
StoreCitation ==
    LET e == File(CHOOSE k \in scope : TRUE, "D1", "C1", 1, <<link.lien>>, << >>)
        r == process_entry(tx, << >>, << >>, e)
    IN  /\ link.phase = "read"
        /\ tx' = IF r.ok THEN r.db ELSE tx
        /\ last' = [entry |-> e, op |-> r.op]
        /\ link' = [link EXCEPT !.phase = IF r.ok THEN "stored" ELSE "raised"]
        /\ UNCHANGED <<db, pc, last_update, cur, liste_suppression,
                       old_files_log, nread, scope, twice, nsuppressed,
                       dir, cols>>

\* TYPELIEN_MAP[kind] for the kind reached last
MapKind ==
    LET kind == link.trail[Len(link.trail)]
    IN  /\ link.phase # "none"
        /\ Len(link.trail) < 3
        /\ kind \in DOMAIN TYPELIEN_MAP
        /\ link' = [link EXCEPT !.trail = Append(@, TYPELIEN_MAP[kind])]
        /\ UNCHANGED <<db, tx, pc, last_update, cur, liste_suppression,
                       old_files_log, nread, last, scope, twice, nsuppressed,
                       dir, cols>>

NextLiens ==
    \/ StoreCitation
    \/ MapKind

SpecLiens == InitLiens /\ [][NextLiens]_vars

\* ------------------------------------------------------------ properties
\* the step reads an entry of the current archive (it is last'.entry)
EntryStep == pc = "archive" /\ last'.op # "none"

\* the row stored for the candidate's (table, id), as a sequence
StoredFor(d, e) ==
    IF e.type = "file" /\ ~e.path.short /\ get_table(e.path) \in DocTables
    THEN prev_row_of(d, get_table(e.path), e.path.id)
    ELSE << >>

Rows(d) == d.articles \cup d.sections \cup d.textes_structs \cup d.textes_versions

\* C1: for every document table and id, the stored mtime never decreases
\* while the row exists, entry after entry and commit after commit.
MtimeOrder(d1, d2) ==
    \A t \in DocTables : \A r1 \in d1[t] : \A r2 \in d2[t] :
        r1.id = r2.id => r2.mtime >= r1.mtime
MtimeNeverDecreases ==
    [][(pc = "archive" /\ pc' = "archive" => MtimeOrder(tx, tx'))
       /\ MtimeOrder(db, db')]_vars

\* C2: a candidate with the stored dossier and cid and a strictly lower
\* mtime is discarded: document rows, liens and sommaires stay as they are.
StaleSamePath(d, e) ==
    /\ StoredFor(d, e) # << >>
    /\ StoredFor(d, e)[1].dossier = e.path.dossier
    /\ StoredFor(d, e)[1].cid = e.path.cid
    /\ e.mtime < StoredFor(d, e)[1].mtime
StaleSamePathDiscarded ==
    [][EntryStep /\ StaleSamePath(tx, last'.entry)
       => last'.op = "discarded" /\ Tables(tx') = Tables(tx)]_vars

\* C4: a candidate whose mtime equals the stored mtime is a no-op: no row
\* of any table is inserted, updated or deleted, and nothing is raised.
SameMtime(d, e) ==
    /\ StoredFor(d, e) # << >>
    /\ StoredFor(d, e)[1].mtime = e.mtime
SameMtimeNoOp ==
    [][EntryStep /\ SameMtime(tx, last'.entry)
       => last'.op = "skipped" /\ tx' = tx /\ db' = db]_vars
SameMtimeNoOpWitness ==
    /\ pc = "archive"
    /\ last.op = "skipped"
    /\ StoredFor(tx, last.entry)[1].dossier # last.entry.path.dossier
    /\ last.entry.root.liens # << >>
    /\ tx.liens = EmptyBag

\* C5: an archive is applied atomically.  A failing entry or manifest
\* reference leaves the committed tables and watermark as they were before
\* the archive; the committed state changes only when an archive finishes,
\* and then to all of its row changes together with its watermark.
ArchiveAtomic ==
    [][/\ (pc = "archive" /\ cur'.op = "failed" => db' = db)
       /\ (db' # db =>
             /\ pc = "archive"
             /\ cur'.op = "applied"
             /\ db_last_update(db') = cur.date
             /\ Tables(db') = Tables(suppress(tx, liste_suppression).db))]_vars
ArchiveAtomicWitness ==
    /\ pc = "idle"
    /\ cur.op = "failed"
    /\ last.op = "failed"
    /\ last.entry.type = "file"
    /\ last.entry.root.liens = BadLiens
    /\ old_files_log # << >>
    /\ Rows(db) # {}

\* C6: the watermark is absent until a full snapshot is committed; once set
\* it is never removed and never decreases, and every applied archive sets
\* it to its own date, strictly greater than the watermark before.
Watermark ==
    [][/\ (db_last_update(db) = 0 /\ db_last_update(db') # 0
             => cur'.global /\ cur'.op = "applied")
       /\ (db_last_update(db) # 0 => db_last_update(db') >= db_last_update(db))
       /\ (pc = "archive" /\ cur'.op = "applied"
             => /\ db_last_update(db') = cur.date
                /\ db_last_update(db') > db_last_update(db)
                /\ Cardinality(db'.db_meta) = 1)]_vars
WatermarkWitness ==
    /\ cur.op = "applied"
    /\ ~cur.global
    /\ db_last_update(db) = MaxDate

\* C7: an archive is applied only if there is no watermark and it is a full
\* snapshot, or there is a watermark, it is a delta and its date is strictly
\* greater; any other archive is skipped, which changes no table and no
\* watermark and ends no run.
MayApply(a, watermark) ==
    \/ watermark = 0 /\ a.global
    \/ watermark # 0 /\ ~a.global /\ a.date > watermark
EligibilityRule ==
    [][/\ (pc = "scan" /\ pc' = "archive" => MayApply(cur', db_last_update(db)))
       /\ (pc = "scan" /\ cur'.op = "skipped"
             => /\ ~(cur'.match /\ MayApply(cur', db_last_update(db)))
                /\ db' = db
                /\ pc' = "scan")
       /\ (pc = "scan" /\ pc' = "idle" => db' = db)]_vars
EligibilityRuleWitness ==
    /\ pc = "scan"
    /\ cur.op = "skipped"
    /\ cur.match
    /\ ~cur.global
    /\ db_last_update(db) # 0
    /\ cur.date = db_last_update(db)

\* C8: after an accepted insert or update of an Article or TextVersion X the
\* liens rows X owns are exactly the rows of the citations of the version
\* just written.
OwnedLiens(d, text_id) ==
    SelectRows(d.liens, {r \in DOMAIN d.liens : owns_lien(r, text_id)})
LinkCompleteness ==
    (/\ pc = "archive"
     /\ last.op \in {"inserted", "updated"}
     /\ get_table(last.entry.path) \in LiensTables)
    => OwnedLiens(tx, last.entry.path.id)
         = InsertAll(EmptyBag,
                     lien_rows(last.entry.path.id, last.entry.root.liens))
LinkCompletenessWitness ==
    /\ pc = "archive"
    /\ last.op = "updated"
    /\ get_table(last.entry.path) \in LiensTables
    /\ Len(last.entry.root.liens) = 1
    /\ BagCardinality(OwnedLiens(tx, last.entry.path.id)) = 1

\* C9: in every state, for every (cid, parent, _source) group of sommaires
\* rows the positions are exactly 0..n-1, each once.
TocGroup(d, g) ==
    SelectRows(d.sommaires,
               {r \in DOMAIN d.sommaires :
                   r.cid = g.cid /\ r.parent = g.parent /\ r._source = g._source})
TocContiguous(d) ==
    \A g \in DOMAIN d.sommaires :
        \A p \in 0..(BagCardinality(TocGroup(d, g)) - 1) :
            BagCardinality(SelectRows(TocGroup(d, g),
                {r \in DOMAIN d.sommaires : r.position = p})) = 1
TocContiguity == TocContiguous(tx) /\ TocContiguous(db)

\* C10: after an accepted update of a Section or TextStructure the sommaires
\* rows it contributed, under any cid, are exactly the children of the
\* version just written, in listing order.
ContributedToc(d, table, text_id) ==
    SelectRows(d.sommaires,
               {r \in DOMAIN d.sommaires :
                   IF table = "sections"
                   THEN r.parent = text_id /\ r._source = <<"section_ta_liens">>
                   ELSE r._source = <<"struct/", text_id>>})
ListedToc(e) ==
    IF get_table(e.path) = "sections"
    THEN section_sommaires(e.path.cid, e.path.id, e.root.children)
    ELSE struct_sommaires(e.path.cid, e.path.id, e.root.children)
SupersessionRemovesToc ==
    (/\ pc = "archive"
     /\ last.op = "updated"
     /\ get_table(last.entry.path) \in TocTables)
    => ContributedToc(tx, get_table(last.entry.path), last.entry.path.id)
         = InsertAll(EmptyBag, ListedToc(last.entry))

\* C3: process_archive applied a second time to the same archive, right
\* after the first, leaves articles, sections, textes_*, liens and sommaires
\* as the first application left them and writes nothing.
SecondApplicationNoOp ==
    /\ twice.phase # "raised"
    /\ twice.phase = "again" => db = twice.first /\ twice.writes = 0

\* the rows a manifest reference matches: dossier, cid and id together
Referenced(d, ref) ==
    IF suppress_pass(ref)
    THEN {r \in d[get_table(ref)] :
             r.dossier = ref.dossier /\ r.cid = ref.cid /\ r.id = ref.id}
    ELSE {}

\* C11: when suppress deletes the document a manifest reference names, every
\* liens row and every sommaires row that document owns is deleted too; a
\* reference that matches no row (the same reference again, a document that
\* does not exist) changes no row of any table.
DeletionCascade ==
    [][last'.op = "suppressed" =>
         LET ref == last'.entry.refs[1]
         IN  IF Referenced(tx, ref) # {}
             THEN /\ Referenced(tx', ref) = {}
                  /\ OwnedLiens(tx', ref.id) = EmptyBag
                  /\ ContributedToc(tx', get_table(ref), ref.id) = EmptyBag
             ELSE tx' = tx]_vars

\* C12: after a manifest reference deletes Article X, no articles row X and
\* no liens row with src_id = X or dst_id = X remains, whichever document
\* produced the row.
LiensNaming(d, text_id) ==
    SelectRows(d.liens,
               {r \in DOMAIN d.liens : r.src_id = text_id \/ r.dst_id = text_id})
ManifestRemovesArticleLinks ==
    [][(/\ last'.op = "suppressed"
        /\ get_table(last'.entry.refs[1]) = "articles"
        /\ Referenced(tx, last'.entry.refs[1]) # {})
       => /\ prev_row_of(tx', "articles", last'.entry.refs[1].id) = << >>
          /\ LiensNaming(tx', last'.entry.refs[1].id) = EmptyBag]_vars

\* the candidate's dossier or cid differs from the stored row's
Relocated(d, e) ==
    /\ StoredFor(d, e) # << >>
    /\ \/ StoredFor(d, e)[1].dossier # e.path.dossier
       \/ StoredFor(d, e)[1].cid # e.path.cid

\* the derived rows document e.path.id owns in d are those of candidate e
OwnedRowsAreOf(d, e) ==
    /\ get_table(e.path) \in LiensTables
         => OwnedLiens(d, e.path.id)
              = InsertAll(EmptyBag, lien_rows(e.path.id, e.root.liens))
    /\ get_table(e.path) \in TocTables
         => ContributedToc(d, get_table(e.path), e.path.id)
              = InsertAll(EmptyBag, ListedToc(e))

\* C13: an accepted candidate whose dossier or cid differs from the stored
\* row's and whose mtime is strictly greater updates the row to its dossier,
\* cid and mtime, regenerates the owned derived rows, and appends exactly one
\* record to the old-path log: the path rebuilt from the old dossier and cid.
RelocationNewerWins ==
    [][(/\ EntryStep
        /\ Relocated(tx, last'.entry)
        /\ last'.entry.mtime > StoredFor(tx, last'.entry)[1].mtime
        /\ last'.op # "failed")
       => LET e == last'.entry
              old == StoredFor(tx, e)[1]
          IN  /\ last'.op = "updated"
              /\ StoredFor(tx', e)
                   = <<[id |-> e.path.id, dossier |-> e.path.dossier,
                        cid |-> e.path.cid, mtime |-> e.mtime]>>
              /\ OwnedRowsAreOf(tx', e)
              /\ old_files_log'
                   = <<reconstruct_path(old.dossier, old.cid,
                                        SOUS_DOSSIER_MAP[get_table(e.path)],
                                        e.path.id)>>]_vars

\* C14: a candidate whose dossier or cid differs from the stored row's and
\* whose mtime is strictly lower is discarded: no row of any table changes,
\* and exactly one record, the candidate's own path, is appended to the
\* old-path log.
RelocationStaleDiscarded ==
    [][(/\ EntryStep
        /\ Relocated(tx, last'.entry)
        /\ last'.entry.mtime < StoredFor(tx, last'.entry)[1].mtime)
       => /\ last'.op = "discarded"
          /\ tx' = tx
          /\ old_files_log' = <<path_record(last'.entry.path)>>]_vars
RelocationStaleDiscardedWitness ==
    /\ last.op = "discarded"
    /\ StoredFor(tx, last.entry)[1].cid # last.entry.path.cid
    /\ StoredFor(tx, last.entry)[1].mtime > last.entry.mtime
    /\ last.entry.root.children # << >>
    /\ tx.sommaires = EmptyBag
    /\ Len(old_files_log) = 1

\* C15: a candidate whose mtime equals the stored mtime but whose dossier or
\* cid differs is treated as older: it is discarded (no row changes) and one
\* record for the candidate's path is appended to the old-path log.
TieRelocationLogged ==
    [][(/\ EntryStep
        /\ Relocated(tx, last'.entry)
        /\ last'.entry.mtime = StoredFor(tx, last'.entry)[1].mtime)
       => /\ tx' = tx
          /\ old_files_log' = <<path_record(last'.entry.path)>>]_vars

\* C16: in every state each document table holds at most one row per id; an
\* entry adds a row only when its table holds no row with its id, and
\* otherwise changes the row with that id and no other.
UniqueIds(d) ==
    \A t \in DocTables : \A r1, r2 \in d[t] : r1.id = r2.id => r1 = r2
OneRowPerId ==
    /\ [](UniqueIds(tx) /\ UniqueIds(db))
    /\ [][(EntryStep /\ last'.op \in {"inserted", "updated"}) =>
            LET e == last'.entry
                t == get_table(e.path)
                others == {r \in tx[t] : r.id # e.path.id}
            IN  /\ last'.op = "inserted" <=> StoredFor(tx, e) = << >>
                /\ {r \in tx'[t] : r.id # e.path.id} = others
                /\ Cardinality(tx'[t]) = Cardinality(others) + 1
                /\ \A u \in DocTables \ {t} : tx'[u] = tx[u]]_vars
OneRowPerIdWitness ==
    /\ last.op = "updated"
    /\ StoredFor(tx, last.entry) # << >>
    /\ StoredFor(tx, last.entry)[1].dossier = "D2"
    /\ Cardinality(tx[get_table(last.entry.path)]) = 1

\* C17: for every relation kind the inverse table declares (forward entries
\* and added reverses), the table maps it to a declared kind, and mapping it
\* twice gives the kind back.
InverseInvolution ==
    /\ Len(link.trail) >= 2 => link.trail[2] \in DOMAIN TYPELIEN_MAP
    /\ Len(link.trail) = 3 => link.trail[3] = link.trail[1]
InverseInvolutionWitness ==
    /\ Len(link.trail) = 3
    /\ link.trail[1] = "TRANSFERT"
    /\ link.trail[2] = "TRANSFERE"

\* C18: the liens row stored for a citation element of an accepted Article
\* or TextVersion X.  Marked sens = 'cible': src_id is the cited id, dst_id
\* is X, _reversed is true and typelien is the declared inverse, or
\* typelien + '_R' when none is declared.  Otherwise: src_id is X, dst_id the
\* cited id, _reversed false, with the literal typelien, cid and title.
CitationRowShape ==
    link.phase = "stored" =>
        LET l == link.lien
            X == last.entry.path.id
        IN  /\ BagCardinality(tx.liens) = 1
            /\ \A r \in DOMAIN tx.liens :
                  IF l.sens = "cible"
                  THEN /\ r.src_id = l.id
                       /\ r.dst_id = X
                       /\ r._reversed
                       /\ r.typelien =
                            IF l.typelien \in DOMAIN TYPELIEN_MAP
                            THEN <<TYPELIEN_MAP[l.typelien]>>
                            ELSE <<l.typelien, "_R">>
                  ELSE /\ r.src_id = X
                       /\ r.dst_id = l.id
                       /\ ~r._reversed
                       /\ r.typelien = <<l.typelien>>
                       /\ r.dst_cid = l.cidtexte
                       /\ r.dst_titre = l.text
CitationRowShapeWitness ==
    /\ link.phase = "stored"
    /\ link.lien.sens = "cible"
    /\ link.lien.typelien = "SPEC_APPLICATION"
    /\ last.entry.path.id = "LEGITEXT1"
    /\ \E r \in DOMAIN tx.liens : r.typelien = <<"SPEC_APPLICATION", "_R">>

\* the path is not of the fixed-depth layout, or its kind code is not one of
\* ARTI, SCTA, TEXT
Unclassifiable(parts) ==
    \/ parts.short
    \/ parts.long
    \/ IdCode(parts.id) \notin {"ARTI", "SCTA", "TEXT"}

\* C19: an entry or a manifest reference whose path is not of the layout or
\* whose kind code is not recognized fails classification, and the failure
\* aborts the transaction of the archive: nothing of the archive is
\* committed and the watermark stays.
ClassificationFails ==
    [][/\ (/\ EntryStep
           /\ last'.entry.type = "file"
           /\ Unclassifiable(last'.entry.path))
          => cur'.op = "failed" /\ pc' = "idle" /\ db' = db
       /\ (/\ pc = "archive"
           /\ last'.op = "none"
           /\ \E i \in 1..Len(liste_suppression) :
                  Unclassifiable(liste_suppression[i]))
          => cur'.op = "failed" /\ pc' = "idle" /\ db' = db]_vars

\* the root tag of the documents of each table
ROOT_TAG ==
    [articles |-> "ARTICLE", sections |-> "SECTION_TA",
     textes_structs |-> "TEXTELR", textes_versions |-> "TEXTE_VERSION"]

\* the entry is classified and is not dropped before its document is decoded
Decoded(d, e) ==
    /\ e.type = "file"
    /\ ~e.path.short
    /\ get_table(e.path) \in DocTables
    /\ Decide(StoredFor(d, e), e.path.dossier, e.path.cid, e.mtime)
           \notin {"skip", "discard"}

\* C20: for every kind of document, a decoded document whose embedded id
\* differs from the id of the path, whose enclosing chronicle id differs from
\* the cid of the path, or whose root tag is not the one of the classified
\* table makes processing fail, and nothing of it is stored.
IntegrityChecked ==
    [][(/\ EntryStep
        /\ Decoded(tx, last'.entry)
        /\ LET e == last'.entry
           IN  \/ e.root.id # e.path.id
               \/ e.root.cid # e.path.cid
               \/ e.root.tag # ROOT_TAG[get_table(e.path)])
       => last'.op = "failed" /\ tx' = tx]_vars

\* the manifest reference that names the row stored for the candidate's id
StoredRef(d, e) ==
    [e.path EXCEPT !.dossier = StoredFor(d, e)[1].dossier,
                   !.cid = StoredFor(d, e)[1].cid]

\* lines 52-75: the liens and sommaires rows suppress removes with the
\* document the reference names
DeletionRemoves(d, ref) ==
    [liens |-> d.liens (-) suppress_one(d, ref).liens,
     sommaires |-> d.sommaires (-) suppress_one(d, ref).sommaires]

\* lines 207-213, 230-235, 259-265: the liens and sommaires rows an accepted
\* update removes before it regenerates them
UpdateRemoves(d, e) ==
    [liens |->
        IF e.root.tag \in {"ARTICLE", "TEXTE_VERSION"}
        THEN d.liens (-) delete_liens(d.liens, e.path.id)
        ELSE EmptyBag,
     sommaires |->
        IF e.root.tag = "SECTION_TA"
        THEN d.sommaires
             (-) delete_section_sommaires(d.sommaires, e.path.cid, e.path.id)
        ELSE IF e.root.tag = "TEXTELR"
        THEN d.sommaires
             (-) delete_struct_sommaires(d.sommaires, e.path.cid, e.path.id)
        ELSE EmptyBag]

\* C21: deletion and update clean up the same rows: the liens and sommaires
\* rows an accepted update of a stored document removes before regenerating
\* them are the rows a manifest deletion of that document would remove.
SameCleanup ==
    [][(EntryStep /\ last'.op = "updated")
       => UpdateRemoves(tx, last'.entry)
            = DeletionRemoves(tx, StoredRef(tx, last'.entry))]_vars

\* the document row a candidate carries
RowOf(e) ==
    [id |-> e.path.id, dossier |-> e.path.dossier, cid |-> e.path.cid,
     mtime |-> e.mtime]

\* the mtime rule of the version state machine: an unseen document is
\* inserted, a strictly newer candidate replaces the stored row, any other
\* candidate leaves it
MtimeRule(prev_row, e) ==
    IF prev_row = << >> THEN <<RowOf(e)>>
    ELSE IF e.mtime > prev_row[1].mtime THEN <<RowOf(e)>>
    ELSE prev_row

\* C22: two entries of one archive that target the same document id are
\* applied in entry order, the second decided against the state the first
\* left: the row left after the archive is the one the mtime rule selects
\* when it is applied to the first entry and then to the second.
EntryOrderRule ==
    [][(/\ twice.phase = "ready"
        /\ twice'.phase = "first"
        /\ Len(twice'.entries) = 2
        /\ twice'.entries[1].type = "file"
        /\ twice'.entries[2].type = "file")
       => LET e1 == twice'.entries[1]
              e2 == twice'.entries[2]
          IN  StoredFor(db', e2)
                = MtimeRule(MtimeRule(StoredFor(db, e1), e1), e2)]_vars

\* C24: a manifest reference deletes a document row only if the row's
\* dossier, cid and id all equal the reference's; a reference whose dossier
\* or cid differs from the stored row's deletes no document row and triggers
\* no cascade.
ReferenceMatchesExactly ==
    [][last'.op = "suppressed" =>
         LET ref == last'.entry.refs[1]
         IN  /\ \A t \in DocTables :
                  /\ tx'[t] \subseteq tx[t]
                  /\ \A r \in tx[t] \ tx'[t] :
                        /\ t = get_table(ref)
                        /\ r.dossier = ref.dossier
                        /\ r.cid = ref.cid
                        /\ r.id = ref.id
             /\ Referenced(tx, ref) = {} => tx' = tx]_vars
ReferenceMatchesExactlyWitness ==
    /\ last.op = "suppressed"
    /\ prev_row_of(tx, get_table(last.entry.refs[1]), last.entry.refs[1].id)
         # << >>
    /\ \E r \in Rows(tx) : /\ r.id = last.entry.refs[1].id
                           /\ r.dossier = last.entry.refs[1].dossier
                           /\ r.cid # last.entry.refs[1].cid
    /\ tx.liens # EmptyBag \/ tx.sommaires # EmptyBag

\* C25: the manifest references of an archive are applied after every
\* document entry of the archive, wherever the manifest sits and whatever the
\* mtimes: a document whose entry the archive applies and whose path the
\* manifest of the same archive references is absent, with the derived rows
\* it owns, when the archive finishes.
ManifestAfterEntries ==
    [][(twice.phase = "ready" /\ twice'.phase = "first") =>
         \A i, j \in 1..Len(twice'.entries) :
            LET e == twice'.entries[i]
                m == twice'.entries[j]
            IN  (/\ e.type = "file"
                 /\ m.type = "manifest"
                 /\ m.refs = <<e.path>>
                 /\ Decoded(db, e))
                => /\ StoredFor(db', e) = << >>
                   /\ OwnedLiens(db', e.path.id) = EmptyBag
                   /\ ContributedToc(db', get_table(e.path), e.path.id)
                        = EmptyBag]_vars

\* the path an entry or a manifest reference is about
TargetOf(entry) ==
    IF entry.type = "manifest" THEN entry.refs[1] ELSE entry.path

\* the rows of d that document text_id of `table` neither is nor owns
RowsOfOthers(d, table, text_id) ==
    [docs |-> [u \in DocTables |->
                  {r \in d[u] : ~(u = table /\ r.id = text_id)}],
     liens |-> SelectRows(d.liens,
                  {r \in DOMAIN d.liens :
                      ~(table \in LiensTables /\ owns_lien(r, text_id))}),
     sommaires |-> SelectRows(d.sommaires,
                  {r \in DOMAIN d.sommaires :
                      /\ ~(/\ table = "sections"
                           /\ r.parent = text_id
                           /\ r._source = <<"section_ta_liens">>)
                      /\ ~(/\ table = "textes_structs"
                           /\ r._source = <<"struct/", text_id>>)})]

\* C26: an entry or a manifest reference for document X never deletes or
\* modifies a liens or sommaires row owned by another document, and never
\* modifies another document's row.
OthersUntouched ==
    [][last'.op \in {"inserted", "updated", "skipped", "discarded", "suppressed"}
       => LET X == TargetOf(last'.entry)
          IN  RowsOfOthers(tx', get_table(X), X.id)
                = RowsOfOthers(tx, get_table(X), X.id)]_vars
OthersUntouchedWitness ==
    /\ last.op = "updated"
    /\ get_table(last.entry.path) = "textes_structs"
    /\ last.entry.root.children = << >>
    /\ \E r \in DOMAIN tx.sommaires :
          /\ r.cid = last.entry.path.cid
          /\ r._source = <<"section_ta_liens">>

\* C27: archives are taken as the file names come, not by date.  A delta
\* whose date is not greater than the watermark at the moment it is
\* considered, or that comes while there is no watermark, is skipped in that
\* run; and no run applies a delta whose date is at or below the committed
\* watermark.
FilenameOrder ==
    [][/\ (/\ pc = "scan"
           /\ cur'.op \in {"skipped", "processing"}
           /\ ~cur'.global
           /\ (last_update = 0 \/ cur'.date <= last_update))
          => cur'.op = "skipped" /\ pc' = "scan" /\ db' = db
       /\ (pc = "scan" /\ pc' = "archive" /\ ~cur'.global)
          => /\ db_last_update(db) # 0
             /\ cur'.date > db_last_update(db)]_vars
FilenameOrderWitness ==
    /\ pc = "scan"
    /\ cur.op = "skipped"
    /\ cur.match
    /\ ~cur.global
    /\ cur.date < last_update
    /\ last_update = MaxDate
    /\ db_last_update(db) = MaxDate
    /\ Rows(db) # {}

\* C28: when processing of an archive fails the run stops, so no archive
\* later in the listing is applied in that run and nothing is committed; the
\* next run reads the watermark the failed run left and the first archive it
\* opens is the one that failed.
FailureStopsRun ==
    [][/\ (pc = "archive" /\ cur'.op = "failed")
          => /\ pc' = "idle"
             /\ db' = db
             /\ db_last_update(db') = last_update
       /\ (pc = "idle" /\ cur.op = "failed")
          => /\ pc' = "scan"
             /\ db' = db
             /\ last_update' = last_update
       /\ (pc = "scan" /\ pc' = "archive" /\ dir.retry # 0)
          => dir.pos = dir.retry
       /\ (pc = "scan" /\ pc' = "idle") => dir.retry = 0]_vars

\* C30: the records printed to the old-path log while an archive is
\* processed are not undone when the transaction of the archive aborts: the
\* log then holds them although no row change is committed, and processing
\* the archive again appends the same records once more.
LogSurvivesAbort ==
    [][/\ (twice.phase = "ready" /\ twice'.phase = "aborted")
          => /\ db' = db
             /\ old_files_log'
                  = old_files_log
                    \o process_entries(db, << >>, << >>, twice'.entries, 0).log
             /\ twice'.log
                  = process_entries(db, << >>, << >>, twice'.entries, 0).log
       /\ (twice.phase = "aborted" /\ twice'.phase = "retried")
          => /\ db' = db
             /\ old_files_log' = old_files_log \o twice.log]_vars
LogSurvivesAbortWitness ==
    /\ twice.phase = "retried"
    /\ Len(twice.log) = 1
    /\ Len(old_files_log) = 2
    /\ old_files_log[1] = old_files_log[2]
    /\ Rows(db) # {}

\* ---------------------------------------------------------------- SpecFields
\* One Article or one text version, stored version after version with the
\* columns scrape_tags fills, and the normalization command run in between.
FieldsScopes == {{"ART"}, {"VER"}}

\* the children of META_ARTICLE and of ARTICLE; AUTRE is a tag that is not
\* wanted
ArticleMetas ==
    {[NUM |-> n, AUTRE |-> Absent] : n \in {Absent, "", "a", "b"}}
    \cup {[NUM |-> Absent, AUTRE |-> "a"]}
ArticleBodies ==
    {[BLOC_TEXTUEL |-> b, AUTRE |-> Absent] : b \in {Absent, "a", NoChild}}

\* the children of META_TEXTE_VERSION and of TEXTE_VERSION
VersionMetas ==
    {[TITRE |-> t, TITREFULL |-> f] : t \in {Absent, "a"},
                                      f \in {Absent, "b"}}
VersionBodies == {[VISAS |-> Absent]}

WithFields(f, meta, body) ==
    [type |-> "file", path |-> f.path, mtime |-> f.mtime,
     root |-> f.root @@ [meta |-> meta, body |-> body]]

FieldsFiles ==
    [k \in {"ART", "VER"} |->
        {WithFields(File(k, p[1], p[2], m,
                         <<Lien("CITATION", "source", "LEGIARTI2")>>, << >>),
                    meta, body) :
            p \in {<<"D1", "C1">>}, m \in Mtimes,
            meta \in IF k = "ART" THEN ArticleMetas ELSE VersionMetas,
            body \in IF k = "ART" THEN ArticleBodies ELSE VersionBodies}]

FieldsEntries == UNION {FieldsFiles[k] : k \in scope}

InitFields ==
    /\ db = EmptyDb
    /\ tx = EmptyDb
    /\ pc = "archive"
    /\ last_update = 0
    /\ cur = NoArchive
    /\ liste_suppression = << >>
    /\ old_files_log = << >>
    /\ nread = 0
    /\ last = NoEntry
    /\ scope \in FieldsScopes
    /\ twice = NoTwice
    /\ nsuppressed = 0
    /\ link = NoLink
    /\ dir = NoDir
    /\ cols = NoCols

\* lines 131-299 with the attrs: the entry is decided and its derived rows
\* are written as in process_entry; lines 295-299 write the attrs, by update
\* of the row of the same id or by insert
StoreFields(e) ==
    LET r == process_entry(tx, << >>, << >>, e)
        table == get_table(e.path)
        ok == r.ok /\ (r.op \in {"inserted", "updated"} => extract_pass(e.root))
        attrs == extract(e.root, e.path.dossier, e.path.cid, e.mtime)
    IN  /\ tx' = IF ok THEN r.db ELSE tx
        /\ cols' = IF ~ok \/ r.op \notin {"inserted", "updated"} THEN cols
                   ELSE IF r.op = "updated"
                   THEN [cols EXCEPT ![table] = update(@, e.path.id, attrs)]
                   ELSE [cols EXCEPT ![table] =
                            insert(@, COLUMNS[table],
                                   attrs @@ [id |-> e.path.id])]
        /\ old_files_log' = IF ok THEN r.log ELSE << >>
        /\ last' = [entry |-> e, op |-> IF ok THEN r.op ELSE "failed"]
        /\ UNCHANGED <<db, pc, last_update, cur, liste_suppression, nread,
                       scope, twice, nsuppressed, link, dir>>

\* ------------------------------------------------------- legi/normalize.py
\* The texts the normalizers compute come from regular expressions and from
\* legi.titles, legi.html and legi.spelling; what they return is a choice
\* here, and the rows they are written to are as in the code.
NormValues == {"", "n"}

\* what one turn of the loop of normalize_article_numbers does with a row:
\* nothing, add_change((orig_num, num)), or the completed truncated title
\* (lines 369-383) with the rest of bloc_textuel
ArticleChanges ==
    {[kind |-> "keep", num |-> None, rest |-> None]}
    \cup {[kind |-> "num", num |-> n, rest |-> None] : n \in NormValues}
    \cup {[kind |-> "title", num |-> "n", rest |-> "n"]}

\* mutant: the update is issued in a dry run too
update_article_IgnoresDryRun(rows, article_id, data, dry_run) ==
    update(rows, article_id, data)

\* lines 156-159: update_article(data)
update_article(rows, article_id, data, dry_run) ==
    IF dry_run THEN rows ELSE update(rows, article_id, data)

\* lines 146-154: add_change(k)
add_change(rows, article_id, num, dry_run) ==
    IF dry_run THEN rows
    ELSE update_article(rows, article_id, [num |-> num], dry_run)

\* lines 161-165: SELECT id, cid, num FROM articles WHERE length(num) > 0
numbered(rows) == {r.id : r \in {x \in rows : x.num \notin {None, ""}}}

\* a change the row allows: the new num differs from the old one, and the
\* truncated title is completed from a bloc_textuel that is there
change_allowed(r, ch) ==
    /\ ch.kind # "keep" => ch.num # r.num
    /\ ch.kind = "title" => r.bloc_textuel # None

RECURSIVE normalize_article_numbers(_, _, _, _)
\* lines 28-421: the loop over the numbered articles, `changes` giving the
\* change of each
normalize_article_numbers(rows, ids, changes, dry_run) ==
    IF ids = {} THEN rows
    ELSE LET article_id == CHOOSE i \in ids : TRUE
             ch == changes[article_id]
             r1 == IF ch.kind = "keep" THEN rows
                   ELSE add_change(rows, article_id, ch.num, dry_run)
             r2 == IF ch.kind = "title"
                   THEN update_article(r1, article_id,
                                       [bloc_textuel |-> ch.rest], dry_run)
                   ELSE r1
         IN  normalize_article_numbers(r2, ids \ {article_id}, changes,
                                       dry_run)

\* lines 426-433
TEXTES_VERSIONS_BRUTES_BITS ==
    [nature |-> 1, titre |-> 2, titrefull |-> 4, autorite |-> 8, num |-> 16,
     date_texte |-> 32]

\* the columns one turn of the loop of normalize_text_titles may put in
\* `updates` (lines 569-583 and 545-558)
TitleUpdates ==
    {{}, {"titrefull_s"}, {"titre", "titrefull", "titrefull_s"},
     {"nature", "date_texte", "autorite", "titre"}}

\* lines 569-583: a column is in `updates` when its new value differs
updates_of(r, columns) ==
    [c \in {x \in columns : r[x] # "n"} |-> "n"]

\* lines 588-598: the row of textes_versions_brutes, the original values of
\* the columns changed with their bits, and the id, dossier, cid and mtime
\* read back from textes_versions
brutes_row(orig, stored, orig_columns) ==
    [c \in {"id", "dossier", "cid", "mtime", "bits"}
           \cup DOMAIN TEXTES_VERSIONS_BRUTES_BITS |->
        CASE c \in {"id", "dossier", "cid", "mtime"} -> stored[c]
          [] c = "bits" ->
                (IF "nature" \in orig_columns THEN 1 ELSE 0)
                + (IF "titre" \in orig_columns THEN 2 ELSE 0)
                + (IF "titrefull" \in orig_columns THEN 4 ELSE 0)
                + (IF "autorite" \in orig_columns THEN 8 ELSE 0)
                + (IF "date_texte" \in orig_columns THEN 32 ELSE 0)
          [] c \in orig_columns -> orig[c]
          [] OTHER -> None]

\* db.insert(table, attrs, replace=True): INSERT OR REPLACE, the row of the
\* same id gives way
insert_replace(rows, row) == {b \in rows : b.id # row.id} \cup {row}

\* lines 446-447: len(titre) and len(titrefull) raise TypeError on NULL
titles_pass(rows) == \A r \in rows : r.titre # None /\ r.titrefull # None

RECURSIVE normalize_text_titles(_, _, _, _)
\* lines 423-603: the loop over textes_versions, `choice` giving the columns
\* found to change in each row; c is the pair of tables written
normalize_text_titles(c, ids, choice, dry_run) ==
    IF ids = {} THEN c
    ELSE LET text_id == CHOOSE i \in ids : TRUE
             r == CHOOSE x \in c.textes_versions : x.id = text_id
             updates == updates_of(r, choice[text_id])
             orig_columns == DOMAIN updates \ {"titrefull_s"}
             written ==
                 IF DOMAIN updates = {} \/ dry_run THEN c.textes_versions
                 ELSE update(c.textes_versions, text_id, updates)
             after == CHOOSE x \in written : x.id = text_id
             brutes ==
                 IF orig_columns = {} \/ dry_run
                 THEN c.textes_versions_brutes
                 ELSE insert_replace(c.textes_versions_brutes,
                                     brutes_row(r, after, orig_columns))
         IN  normalize_text_titles(
                 [textes_versions |-> written,
                  textes_versions_brutes |-> brutes],
                 ids \ {text_id}, choice, dry_run)

\* lines 605-623: the command; both passes run in one transaction, which is
\* rolled back when a pass raises and when dry_run is set
NormalizeCommand(what, dry_run) ==
    \E changes \in [numbered(cols.articles) -> ArticleChanges],
       choice \in [{r.id : r \in cols.textes_versions} -> TitleUpdates] :
        LET titles == what \in {"all", "textes_titres"}
            numbers == what \in {"all", "articles_num"}
            raises == titles /\ ~titles_pass(cols.textes_versions)
            c0 == [textes_versions |-> cols.textes_versions,
                   textes_versions_brutes |-> cols.textes_versions_brutes]
            c1 == IF titles /\ ~raises
                  THEN normalize_text_titles(c0, DOMAIN choice, choice, dry_run)
                  ELSE c0
            a1 == IF numbers
                  THEN normalize_article_numbers(cols.articles, DOMAIN changes,
                                                 changes, dry_run)
                  ELSE cols.articles
            working == [cols EXCEPT
                          !.articles = a1,
                          !.textes_versions = c1.textes_versions,
                          !.textes_versions_brutes =
                              c1.textes_versions_brutes]
            \* `changes` and `update_counts` (lines 145-154, 435-441) count
            \* what the passes found to change, dry run or not
            found ==
                \/ numbers /\ ~raises
                   /\ \E i \in DOMAIN changes : changes[i].kind # "keep"
                \/ titles /\ ~raises
                   /\ \E r \in cols.textes_versions :
                         DOMAIN updates_of(r, choice[r.id]) # {}
        IN  /\ \A i \in DOMAIN changes :
                  change_allowed(CHOOSE r \in cols.articles : r.id = i,
                                 changes[i])
            /\ cols' = db_exit(cols, working, ~raises /\ ~dry_run)
            /\ last' = [entry |-> [type |-> "normalize", what |-> what,
                                   dry_run |-> dry_run],
                        found |-> found,
                        issued |-> ~raises /\ working # cols,
                        op |-> IF raises THEN "raised"
                               ELSE IF dry_run THEN "rolled back"
                               ELSE "normalized"]
            /\ UNCHANGED <<db, tx, pc, last_update, cur, liste_suppression,
                           old_files_log, nread, scope, twice, nsuppressed,
                           link, dir>>

NextFields ==
    \/ \E e \in FieldsEntries : StoreFields(e)
    \/ \E what \in {"all", "articles_num", "textes_titres"},
          dry_run \in BOOLEAN : NormalizeCommand(what, dry_run)

SpecFields == InitFields /\ [][NextFields]_vars

\* the stored columns and the stored rows tell of the same documents
FieldsAgree ==
    \A t \in DocTables :
        {[id |-> r.id, dossier |-> r.dossier, cid |-> r.cid,
          mtime |-> r.mtime] : r \in cols[t]}
        = {[id |-> r.id, dossier |-> r.dossier, cid |-> r.cid,
            mtime |-> r.mtime] : r \in tx[t]}

\* the columns of the wanted tags the document has no child of: scrape_tags
\* leaves them out of attrs
OmittedColumns(root) ==
    {lower[t] : t \in ROOT_TAGS[root.tag] \cup META_TAGS[root.tag]}
    \ DOMAIN extract(root, None, None, 0)

\* the stored row of the document of entry e, with its columns
ColumnsOf(c, e) ==
    CHOOSE r \in c[get_table(e.path)] : r.id = e.path.id

\* C29: field extraction never fails because a wanted tag is unknown or
\* absent: an entry that fails has a wanted child without the element to
\* unwrap. The attribute of an absent wanted tag is left out of the record,
\* and once the entry is written, by insert or by update of the existing
\* row, the column is unset in the stored row: no value of a previous
\* version survives.
AbsentTagUnset ==
    [][last'.entry.type = "file" =>
        LET e == last'.entry
        IN  /\ last'.op = "failed" => ~extract_pass(e.root)
            /\ last'.op \in {"inserted", "updated"} =>
                   \A c \in OmittedColumns(e.root) :
                       ColumnsOf(cols', e)[c] = None]_vars

\* the same for the entries written by insert
AbsentTagUnsetOnInsert ==
    [][last'.entry.type = "file" =>
        LET e == last'.entry
        IN  /\ last'.op = "failed" => ~extract_pass(e.root)
            /\ last'.op = "inserted" =>
                   \A c \in OmittedColumns(e.root) :
                       ColumnsOf(cols', e)[c] = None]_vars

\* the id, dossier, cid and mtime of the rows of a document table
KeysOf(rows) ==
    {[id |-> r.id, dossier |-> r.dossier, cid |-> r.cid, mtime |-> r.mtime] :
        r \in rows}

\* the columns of text the normalizers write, per table
NormalizedColumns ==
    [articles |-> {"num", "bloc_textuel"},
     sections |-> {},
     textes_structs |-> {},
     textes_versions |-> {"titre", "titrefull", "nature", "titrefull_s",
                          "date_texte", "autorite"}]

\* rows `after` are the rows `before` but for the columns given
SameBut(before, after, columns) ==
    /\ {r.id : r \in after} = {r.id : r \in before}
    /\ \A r \in before : \A s \in after :
          r.id = s.id => \A c \in DOMAIN r \ columns : s[c] = r[c]

NumbersNormalized ==
    /\ last.entry.type = "normalize"
    /\ last.op = "normalized"
    /\ tx.liens # EmptyBag
    /\ \E r \in cols.articles : r.num = "n" /\ r.bloc_textuel = "n"

\* C31: with dry_run set, normalize_article_numbers and normalize_text_titles
\* issue no update and no insert, whatever they find to change, and the
\* command rolls the transaction back: the committed rows after a dry run
\* are the rows before it.
DryRunChangesNothing ==
    [][(last'.entry.type = "normalize" /\ last'.entry.dry_run) =>
        /\ ~last'.issued
        /\ last'.op \in {"rolled back", "raised"}
        /\ cols' = cols
        /\ tx' = tx
        /\ db' = db]_vars

DryRunChangesNothingWitness ==
    /\ last.entry.type = "normalize"
    /\ last.entry.dry_run
    /\ last.op = "rolled back"
    /\ last.found
    /\ \E r \in cols.articles : r.num = "a" /\ r.bloc_textuel = "a"

\* the same for a text version whose titles the pass would rewrite
DryRunTitles ==
    /\ last.entry.type = "normalize"
    /\ last.entry.dry_run
    /\ last.op = "rolled back"
    /\ last.found
    /\ \E r \in cols.textes_versions : r.titre = "a" /\ r.titrefull = "b"
    /\ cols.textes_versions_brutes = {}

\* without dry_run the same command issues its updates and commits them
WetRunWrites ==
    /\ last.entry.type = "normalize"
    /\ ~last.entry.dry_run
    /\ last.found
    /\ last.issued
    /\ last.op = "normalized"

====
